---- MODULE Spec2Model ----
(***************************************************************************)
(* A model of APIKeyzer: the key detector (internal/detector), the Google  *)
(* Maps reference validator (internal/validator/services), the validation  *)
(* manager with its bounded parallel batch (internal/validator) and the    *)
(* per-key driver loop of cmd/apiKeyzer.                                   *)
(*                                                                         *)
(* Network responses, keys and pattern configurations are inputs drawn     *)
(* from small sets.  Timestamps (ValidatedAt) are left out: nothing in the *)
(* code reads them.                                                        *)
(***************************************************************************)
EXTENDS Integers, Sequences, FiniteSets, TLC

VARIABLES
  \* GoogleMapsValidator.Validate, one call stepped endpoint by endpoint
  vpc,            \* "idle" | "loop" | "returned"
  vi,             \* index of the next endpoint of the range loop
  vresult,        \* the *ValidationResult being built
  vulnerableAPIs, \* the local slice of Validate
  vouts,          \* the outcomes validateEndpoint produced so far (history)
  vret,           \* what Validate returned: [result, err]
  vctx,           \* the caller's context: "live" | "cancelled" | "nil"
  vcalls          \* the context state at each validateEndpoint call (history)

VARIABLES
  \* ValidationManager
  validators,     \* vm.validators: service name -> validator
  \* ValidateKeysParallel, per call (two calls may run side by side)
  mpc,            \* the caller: "absent" | "idle" | "spawn" | "returned"
  service,        \* the service argument
  keys,           \* the keys argument
  mi,             \* index of the range loop that starts the goroutines
  results,        \* the results slice
  semaphore,      \* number of values in the buffered channel
  wg,             \* the WaitGroup counter
  tpc,            \* per goroutine: "none" | "acquire" | "validating" | "exit" | "done"
  mret            \* what the call returned

varsValidate == <<vpc, vi, vresult, vulnerableAPIs, vouts, vret, vctx, vcalls>>

VARIABLES
  \* the key detector
  configData,     \* the configuration payload handed to NewKeyDetector
  detector,       \* the *KeyDetector it returned, or Nil
  loadErr,        \* the error it returned
  dpc,            \* "start" | "loaded" | "failed"
  dkey,           \* the argument of the last DetectService call
  dret,           \* what that call returned
  \* runValidation, the per-key loop of the command
  rpc,            \* "absent" | "loop" | "done"
  rkeys,          \* the keys read from the input
  ri,             \* index of the range loop
  rlog            \* one record per processed key: what was printed for it

varsMany == <<validators, mpc, service, keys, mi, results, semaphore, wg, tpc, mret>>

varsDetect == <<configData, detector, loadErr, dpc, dkey, dret>>

varsDriver == <<rpc, rkeys, ri, rlog>>

vars == <<varsValidate, varsMany, varsDetect, varsDriver>>

\* what the steps of one component leave alone
notValidate == <<varsMany, varsDetect, varsDriver>>

notMany == <<varsValidate, varsDetect, varsDriver>>

Nil == [nil |-> TRUE]

(***************************************************************************)
(* internal/validator: errors and risk levels                              *)
(***************************************************************************)
NoError == "<nil>"
ErrInvalidKey == "invalid API key"
ErrTimeout == "validation timeout"

RiskLevelLow == "low"
RiskLevelMedium == "medium"
RiskLevelHigh == "high"

(***************************************************************************)
(* services/googlemaps.go: the endpoint table.  VulnCheck is named by the  *)
(* kind of predicate the endpoint carries.                                 *)
(***************************************************************************)
googleMapsEndpoints ==
  << [URL |-> "https://maps.googleapis.com/maps/api/staticmap",
      Method |-> "GET", VulnCheck |-> "status200_or_png"],
     [URL |-> "https://maps.googleapis.com/maps/api/streetview",
      Method |-> "GET", VulnCheck |-> "status200_or_png"],
     [URL |-> "https://maps.googleapis.com/maps/api/directions/json",
      Method |-> "GET", VulnCheck |-> "status200_no_error_message"],
     [URL |-> "https://www.googleapis.com/geolocation/v1/geolocate",
      Method |-> "POST", VulnCheck |-> "status200_no_error_word"] >>

NumEndpoints == Len(googleMapsEndpoints)

GetService == "Google Safe Browsing API Key"

\* The APIResponse values a probe can produce: the HTTP status, whether the
\* body contains "PNG", whether it contains "error", and the decoded
\* error_message field (a non-empty one comes from a body that holds the
\* word "error").
StatusCodes == {200, 403}

APIResponses ==
  { r \in [StatusCode : StatusCodes, hasPNG : BOOLEAN, hasErrorWord : BOOLEAN,
           ErrorMessage : {"", "denied"}] :
      r.ErrorMessage # "" => r.hasErrorWord }

\* What the network does to one request: it answers, client.Do fails, or
\* reading the body fails.
NetOutcomes ==
  [kind : {"response"}, resp : APIResponses] \cup
  [kind : {"do_error", "read_error"}]

\* APIEndpoint.VulnCheck, the closures of the endpoint table
VulnCheck(endpoint, resp) ==
  CASE endpoint.VulnCheck = "status200_or_png" ->
         resp.StatusCode = 200 \/ resp.hasPNG
    [] endpoint.VulnCheck = "status200_no_error_message" ->
         resp.StatusCode = 200 /\ resp.ErrorMessage = ""
    [] endpoint.VulnCheck = "status200_no_error_word" ->
         resp.StatusCode = 200 /\ ~resp.hasErrorWord

\* the request was cut off by the context while in flight, or never left
Aborted == [kind |-> "aborted"]

NotSent == [kind |-> "not_sent"]

\* what the network can do to a request made under a context: only a live
\* context lets the request out
NetChoices(ctx) == IF ctx = "live" THEN NetOutcomes ELSE {NotSent}

\* url.Parse: the raw URLs it rejects
MalformedURLs == {"http://[::1", "%zz"}

\* validateEndpoint: [resp, err].  Lines 127-130: the URL is parsed; lines
\* 150-153: the request is created, which fails for a nil context or a bad
\* method; lines 161-164: client.Do, which gives up at once on a cancelled
\* context and fails when the context is cancelled in flight; lines 168-171:
\* the body is read.  (json.Marshal of a map of strings does not fail.)
validateEndpointMut(ctx, endpoint, net) ==
  IF endpoint.URL \in MalformedURLs
    THEN [resp |-> Nil, err |-> "invalid endpoint URL: parse error"]
  ELSE IF ctx = "nil" \/ endpoint.Method \notin {"GET", "POST"}
    THEN [resp |-> Nil, err |-> "request failed: transport"]
  ELSE IF ctx = "cancelled" \/ net.kind = "aborted"
    THEN [resp |-> Nil, err |-> "request failed: context canceled"]
  ELSE IF net.kind = "do_error"
    THEN [resp |-> Nil, err |-> "request failed: transport"]
  ELSE IF net.kind = "read_error"
    THEN [resp |-> Nil, err |-> "failed to read response: transport"]
  ELSE [resp |-> net.resp, err |-> NoError]

validateEndpoint(ctx, endpoint, net) ==
  IF endpoint.URL \in MalformedURLs
    THEN [resp |-> Nil, err |-> "invalid endpoint URL: parse error"]
  ELSE IF ctx = "nil"
    THEN [resp |-> Nil, err |-> "failed to create request: net/http: nil Context"]
  ELSE IF endpoint.Method \notin {"GET", "POST"}
    THEN [resp |-> Nil, err |-> "failed to create request: invalid method"]
  ELSE IF ctx = "cancelled" \/ net.kind = "aborted"
    THEN [resp |-> Nil, err |-> "request failed: context canceled"]
  ELSE IF net.kind = "do_error"
    THEN [resp |-> Nil, err |-> "request failed: transport"]
  ELSE IF net.kind = "read_error"
    THEN [resp |-> Nil, err |-> "failed to read response: transport"]
  ELSE [resp |-> net.resp, err |-> NoError]

\* assessRiskLevel
assessRiskLevelMut(apis) ==
  CASE Len(apis) = 0 -> RiskLevelLow
    [] Len(apis) \in {1, 2, 3} -> RiskLevelMedium
    [] OTHER -> RiskLevelHigh

assessRiskLevel(apis) ==
  CASE Len(apis) = 0 -> RiskLevelLow
    [] Len(apis) \in {1, 2} -> RiskLevelMedium
    [] OTHER -> RiskLevelHigh

\* map assignment m[k] = v
MapSet(m, k, v) == [x \in DOMAIN m \cup {k} |-> IF x = k THEN v ELSE m[x]]

EmptyMap == [x \in {} |-> Nil]

\* Validate, lines 186-193: the fresh result and the empty slice
NewResult ==
  [Valid |-> FALSE, Service |-> GetService, Permissions |-> <<>>,
   RiskLevel |-> "", Details |-> EmptyMap, Error |-> NoError, ErrorStr |-> ""]

\* Validate, lines 196-214: the body of the range loop for one endpoint.
\* st = [result, apis]
ValidateBodyMut(st, ctx, endpoint, net) ==
  LET r == validateEndpoint(ctx, endpoint, net) IN
  IF r.err # NoError
    THEN st
    ELSE LET vuln == VulnCheck(endpoint, r.resp)
             res1 == IF vuln THEN [st.result EXCEPT !.Valid = TRUE] ELSE st.result
             apis1 == IF vuln THEN Append(st.apis, endpoint.URL) ELSE st.apis
         IN [result |-> [res1 EXCEPT !.Details =
                           MapSet(@, endpoint.URL,
                                  [status_code |-> r.resp.StatusCode,
                                   vulnerable |-> VulnCheck(endpoint, r.resp)])],
             apis |-> apis1]

\* a cancelled probe written down as an endpoint that was probed
ValidateBodyAsProbed(st, ctx, endpoint, net) ==
  LET r == validateEndpoint(ctx, endpoint, net) IN
  IF r.err # NoError
    THEN [result |-> [st.result EXCEPT !.Details =
                        MapSet(@, endpoint.URL,
                               IF ctx = "cancelled"
                                 THEN [status_code |-> 0, vulnerable |-> FALSE]
                                 ELSE [text |-> "Error: " \o r.err])],
          apis |-> st.apis]
    ELSE LET vuln == VulnCheck(endpoint, r.resp)
             res1 == IF vuln THEN [st.result EXCEPT !.Valid = TRUE] ELSE st.result
             apis1 == IF vuln THEN Append(st.apis, endpoint.URL) ELSE st.apis
         IN [result |-> [res1 EXCEPT !.Details =
                           MapSet(@, endpoint.URL,
                                  [status_code |-> r.resp.StatusCode,
                                   vulnerable |-> VulnCheck(endpoint, r.resp)])],
             apis |-> apis1]

ValidateBody(st, ctx, endpoint, net) ==
  LET r == validateEndpoint(ctx, endpoint, net) IN
  IF r.err # NoError
    THEN [result |-> [st.result EXCEPT !.Details =
                        MapSet(@, endpoint.URL, [text |-> "Error: " \o r.err])],
          apis |-> st.apis]
    ELSE LET vuln == VulnCheck(endpoint, r.resp)
             res1 == IF vuln THEN [st.result EXCEPT !.Valid = TRUE] ELSE st.result
             apis1 == IF vuln THEN Append(st.apis, endpoint.URL) ELSE st.apis
         IN [result |-> [res1 EXCEPT !.Details =
                           MapSet(@, endpoint.URL,
                                  [status_code |-> r.resp.StatusCode,
                                   vulnerable |-> VulnCheck(endpoint, r.resp)])],
             apis |-> apis1]

\* Validate, lines 216-227: permissions, risk level, the invalid-key error
ValidateTailMut(st) ==
  LET r1 == [st.result EXCEPT !.Permissions = st.apis,
                              !.RiskLevel = assessRiskLevel(st.apis)]
  IN IF r1.RiskLevel # RiskLevelHigh
       THEN [r1 EXCEPT !.Error = ErrInvalidKey,
                       !.ErrorStr = "API key not vulnerable for any endpoints"]
       ELSE r1

ValidateTail(st) ==
  LET r1 == [st.result EXCEPT !.Permissions = st.apis,
                              !.RiskLevel = assessRiskLevel(st.apis)]
  IN IF ~r1.Valid
       THEN [r1 EXCEPT !.Error = ErrInvalidKey,
                       !.ErrorStr = "API key not vulnerable for any endpoints"]
       ELSE r1

(***************************************************************************)
(* Inputs of the batch: keys, and what the network answers to each key     *)
(***************************************************************************)
MaxKeys == 6

KeyRing == <<"AIzaAll", "zzDown", "AIzaTwo", "AKIANone">>

KeyUniverse == { KeyRing[i] : i \in 1..Len(KeyRing) }

\* the key lists given to a batch: a stretch of the ring from any start
KeyList(n, r) == [i \in 1..n |-> KeyRing[((i + r) % Len(KeyRing)) + 1]]

Answer(status, png, word, msg) ==
  [kind |-> "response",
   resp |-> [StatusCode |-> status, hasPNG |-> png, hasErrorWord |-> word,
             ErrorMessage |-> msg]]

DoError == [kind |-> "do_error"]

\* the outcome of each of the four probes for a key
NetFor(key) ==
  CASE key = "AIzaAll" ->
         << Answer(200, TRUE, FALSE, ""), Answer(200, TRUE, FALSE, ""),
            Answer(200, FALSE, FALSE, ""), Answer(200, FALSE, FALSE, "") >>
    [] key = "AIzaTwo" ->
         << Answer(403, TRUE, FALSE, ""), DoError,
            Answer(200, FALSE, TRUE, "denied"), Answer(200, FALSE, FALSE, "") >>
    [] key = "AKIANone" ->
         << Answer(403, FALSE, TRUE, "denied"), Answer(403, FALSE, TRUE, "denied"),
            Answer(403, FALSE, TRUE, "denied"), [kind |-> "read_error"] >>
    [] OTHER ->
         << DoError, DoError, DoError, DoError >>

(***************************************************************************)
(* Validators                                                              *)
(***************************************************************************)
RECURSIVE ValidateLoop(_, _, _)
ValidateLoop(st, nets, i) ==
  IF i > NumEndpoints THEN st
  ELSE ValidateLoop(ValidateBody(st, "live", googleMapsEndpoints[i], nets[i]),
                    nets, i + 1)

\* GoogleMapsValidator.Validate as one call under a live context:
\* [result, err]
Validate(nets) ==
  [result |-> ValidateTail(ValidateLoop([result |-> NewResult, apis |-> <<>>], nets, 1)),
   err |-> NoError]

StubService == "Stub Service"

\* another implementor of the Validator interface: Validate returns a
\* verdict, or an error for a key it cannot check
StubValidate(key) ==
  IF key = "zzDown"
    THEN [result |-> Nil, err |-> ErrTimeout]
    ELSE IF key = "AKIANone"
      THEN [result |-> [Valid |-> FALSE, Service |-> StubService, Permissions |-> <<>>,
                        RiskLevel |-> RiskLevelLow, Details |-> EmptyMap,
                        Error |-> ErrInvalidKey, ErrorStr |-> ErrInvalidKey],
            err |-> NoError]
      ELSE [result |-> [Valid |-> TRUE, Service |-> StubService,
                        Permissions |-> <<key>>, RiskLevel |-> RiskLevelMedium,
                        Details |-> EmptyMap, Error |-> NoError, ErrorStr |-> ""],
            err |-> NoError]

\* what GoogleMapsValidator.Validate returns for each key: Validate is a
\* function of the key and of the answers of the network to it
ValidateOfKey == [key \in KeyUniverse |-> Validate(NetFor(key))]

\* Validator.Validate, dispatched on the implementor
ValidatorValidate(v, key) ==
  IF v = "googlemaps" THEN ValidateOfKey[key] ELSE StubValidate(key)

\* ValidationManager.GetValidator: [v, exists]
GetValidator(vs, svc) ==
  IF svc \in DOMAIN vs THEN [v |-> vs[svc], exists |-> TRUE]
  ELSE [v |-> Nil, exists |-> FALSE]

\* ValidationManager.ValidateKey: [result, err], and whether a validator
\* was invoked
ValidateKeyMut(vs, svc, key) ==
  LET g == GetValidator(vs, svc) IN
  IF ~g.exists
    THEN [result |-> Validate(NetFor(key)).result, err |-> NoError, invoked |-> TRUE]
    ELSE LET r == ValidatorValidate(g.v, key) IN
         IF r.err # NoError
           THEN [result |-> Nil, err |-> r.err, invoked |-> TRUE]
           ELSE [result |-> r.result, err |-> NoError, invoked |-> TRUE]

ValidateKey(vs, svc, key) ==
  LET g == GetValidator(vs, svc) IN
  IF ~g.exists
    THEN [result |-> Nil, err |-> "no validator found for service: " \o svc,
          invoked |-> FALSE]
    ELSE LET r == ValidatorValidate(g.v, key) IN
         IF r.err # NoError
           THEN [result |-> Nil, err |-> r.err, invoked |-> TRUE]
           ELSE [result |-> r.result, err |-> NoError, invoked |-> TRUE]

\* initValidators / RegisterValidator: the registry after registration
RegisterValidator(vs, name, v) == MapSet(vs, name, v)

(***************************************************************************)
(* ValidateKeysParallel                                                    *)
(***************************************************************************)
Calls == {1, 2}

MaxConcurrent == 5

\* semaphore <- struct{}{} goes through while the channel has room
CanAcquireMut(sem) == sem < MaxConcurrent + 1

CanAcquireUngated(sem) == TRUE

CanAcquire(sem) == sem < MaxConcurrent

\* wg.Wait() returns when the counter is zero
WaitDoneMut(counter) == TRUE

WaitDone(counter) == counter = 0

\* lines 367-377: the slot a goroutine writes and what it writes there
ErrorResult(svc, err) ==
  [Valid |-> FALSE, Service |-> svc, Permissions |-> <<>>, RiskLevel |-> "",
   Details |-> EmptyMap, Error |-> err, ErrorStr |-> err]

SlotOfMut(index, n) == IF index < n THEN index + 1 ELSE index

SlotOf(index, n) == index

TaskResultMut(svc, r) ==
  IF r.err # NoError THEN Nil ELSE r.result

TaskResult(svc, r) ==
  IF r.err # NoError THEN ErrorResult(svc, r.err) ELSE r.result

InFlight(c) == { i \in 1..Len(keys[c]) : tpc[c][i] = "validating" }

ServiceArgs == {GetService, StubService, "Unregistered Service"}

InitRegistry ==
  RegisterValidator(RegisterValidator(EmptyMap, GetService, "googlemaps"),
                    StubService, "stub")

InitManyIdle ==
  /\ validators = InitRegistry
  /\ mi = [c \in Calls |-> 1]
  /\ results = [c \in Calls |-> <<>>]
  /\ semaphore = [c \in Calls |-> 0]
  /\ wg = [c \in Calls |-> 0]
  /\ mret = [c \in Calls |-> Nil]

\* one call, any service, any key list
InitMany ==
  /\ InitManyIdle
  /\ mpc = [c \in Calls |-> IF c = 1 THEN "idle" ELSE "absent"]
  /\ \E svc \in ServiceArgs, n \in 0..MaxKeys, r \in 0..(Len(KeyRing) - 1) :
       /\ service = [c \in Calls |-> svc]
       /\ keys = [c \in Calls |-> IF c = 1 THEN KeyList(n, r) ELSE <<>>]
  /\ tpc = [c \in Calls |-> [i \in 1..Len(keys[c]) |-> "none"]]

\* two calls side by side on the same manager, both for the Google Maps
\* service: the first with any key list, the second with a single key
SecondCallKeys == <<"AIzaTwo">>

InitConc ==
  /\ InitManyIdle
  /\ mpc = [c \in Calls |-> "idle"]
  /\ service = [c \in Calls |-> GetService]
  /\ \E n \in 0..MaxKeys :
       keys = [c \in Calls |-> IF c = 1 THEN KeyList(n, 0) ELSE SecondCallKeys]
  /\ tpc = [c \in Calls |-> [i \in 1..Len(keys[c]) |-> "none"]]

\* lines 351-355
Invoke(c) ==
  /\ mpc[c] = "idle"
  /\ mpc' = [mpc EXCEPT ![c] = "spawn"]
  /\ results' = [results EXCEPT ![c] = [i \in 1..Len(keys[c]) |-> Nil]]
  /\ wg' = [wg EXCEPT ![c] = 0]
  /\ semaphore' = [semaphore EXCEPT ![c] = 0]
  /\ mi' = [mi EXCEPT ![c] = 1]
  /\ UNCHANGED <<validators, service, keys, tpc, mret>>
  /\ UNCHANGED notMany

\* lines 357-359, 378: wg.Add(1) and the go statement for one key
Spawn(c) ==
  /\ mpc[c] = "spawn"
  /\ mi[c] <= Len(keys[c])
  /\ wg' = [wg EXCEPT ![c] = @ + 1]
  /\ tpc' = [tpc EXCEPT ![c][mi[c]] = "acquire"]
  /\ mi' = [mi EXCEPT ![c] = @ + 1]
  /\ UNCHANGED <<validators, mpc, service, keys, results, semaphore, mret>>
  /\ UNCHANGED notMany

\* line 363: the goroutine takes a permit and goes on to ValidateKey
Acquire(c, i) ==
  /\ tpc[c][i] = "acquire"
  /\ CanAcquire(semaphore[c])
  /\ semaphore' = [semaphore EXCEPT ![c] = @ + 1]
  /\ tpc' = [tpc EXCEPT ![c][i] = "validating"]
  /\ UNCHANGED <<validators, mpc, service, keys, mi, results, wg, mret>>
  /\ UNCHANGED notMany

\* lines 366-377: ValidateKey returns and the goroutine writes its slot
Finish(c, i) ==
  /\ tpc[c][i] = "validating"
  /\ LET r == ValidateKey(validators, service[c], keys[c][i])
     IN results' = [results EXCEPT ![c][SlotOf(i, Len(keys[c]))] =
                                      TaskResult(service[c], r)]
  /\ tpc' = [tpc EXCEPT ![c][i] = "exit"]
  /\ UNCHANGED <<validators, mpc, service, keys, mi, semaphore, wg, mret>>
  /\ UNCHANGED notMany

\* the permit given back at the end of the function body instead of in a
\* deferred call: the return of the error path (line 375) leaves it out
ExitLeakOnError(c, i) ==
  /\ tpc[c][i] = "exit"
  /\ semaphore' = [semaphore EXCEPT ![c] =
                     IF ValidateKey(validators, service[c], keys[c][i]).err # NoError
                       THEN @ ELSE @ - 1]
  /\ wg' = [wg EXCEPT ![c] = @ - 1]
  /\ tpc' = [tpc EXCEPT ![c][i] = "done"]
  /\ UNCHANGED <<validators, mpc, service, keys, mi, results, mret>>
  /\ UNCHANGED notMany

\* the deferred calls: lines 364 and 360, in that order
Exit(c, i) ==
  /\ tpc[c][i] = "exit"
  /\ semaphore' = [semaphore EXCEPT ![c] = @ - 1]
  /\ wg' = [wg EXCEPT ![c] = @ - 1]
  /\ tpc' = [tpc EXCEPT ![c][i] = "done"]
  /\ UNCHANGED <<validators, mpc, service, keys, mi, results, mret>>
  /\ UNCHANGED notMany

\* lines 381-382
Return(c) ==
  /\ mpc[c] = "spawn"
  /\ mi[c] > Len(keys[c])
  /\ WaitDone(wg[c])
  /\ mpc' = [mpc EXCEPT ![c] = "returned"]
  /\ mret' = [mret EXCEPT ![c] = results[c]]
  /\ UNCHANGED <<validators, service, keys, mi, results, semaphore, wg, tpc>>
  /\ UNCHANGED notMany

NextMany ==
  \/ \E c \in Calls : Invoke(c)
  \/ \E c \in Calls : Spawn(c)
  \/ \E c \in Calls : \E i \in 1..Len(keys[c]) : Acquire(c, i)
  \/ \E c \in Calls : \E i \in 1..Len(keys[c]) : Finish(c, i)
  \/ \E c \in Calls : \E i \in 1..Len(keys[c]) : Exit(c, i)
  \/ \E c \in Calls : Return(c)

(***************************************************************************)
(* One Validate call, a step per endpoint probe                            *)
(***************************************************************************)
InitValidateLocals ==
  /\ vpc = "idle"
  /\ vi = 1
  /\ vresult = Nil
  /\ vulnerableAPIs = <<>>
  /\ vouts = <<>>
  /\ vret = Nil
  /\ vcalls = <<>>

\* the caller hands over a context that stays live
InitValidate ==
  /\ InitValidateLocals
  /\ vctx = "live"

\* the caller hands over a context it may cancel later, or nil
InitValidateCtx ==
  /\ InitValidateLocals
  /\ vctx \in {"live", "nil"}

\* lines 186-193
ValidateEnter ==
  /\ vpc = "idle"
  /\ vpc' = "loop"
  /\ vi' = 1
  /\ vresult' = NewResult
  /\ vulnerableAPIs' = <<>>
  /\ vouts' = <<>>
  /\ vret' = Nil
  /\ vcalls' = <<>>
  /\ UNCHANGED vctx
  /\ UNCHANGED notValidate

\* one iteration of the loop of lines 196-214
ValidateProbe ==
  /\ vpc = "loop"
  /\ vi <= NumEndpoints
  /\ \E net \in NetChoices(vctx) :
       LET st == ValidateBody([result |-> vresult, apis |-> vulnerableAPIs],
                              vctx, googleMapsEndpoints[vi], net)
       IN /\ vresult' = st.result
          /\ vulnerableAPIs' = st.apis
          /\ vouts' = Append(vouts, net)
  /\ vcalls' = Append(vcalls, vctx)
  /\ vi' = vi + 1
  /\ UNCHANGED <<vpc, vret, vctx>>
  /\ UNCHANGED notValidate

\* one iteration of the loop during which the caller cancels the context:
\* the request in flight is cut off
ValidateProbeAborted ==
  /\ vpc = "loop"
  /\ vi <= NumEndpoints
  /\ vctx = "live"
  /\ LET st == ValidateBody([result |-> vresult, apis |-> vulnerableAPIs],
                            vctx, googleMapsEndpoints[vi], Aborted)
     IN /\ vresult' = st.result
        /\ vulnerableAPIs' = st.apis
        /\ vouts' = Append(vouts, Aborted)
  /\ vcalls' = Append(vcalls, vctx)
  /\ vctx' = "cancelled"
  /\ vi' = vi + 1
  /\ UNCHANGED <<vpc, vret>>
  /\ UNCHANGED notValidate

\* the caller cancels the context between two probes
Cancel ==
  /\ vpc = "loop"
  /\ vctx = "live"
  /\ vctx' = "cancelled"
  /\ UNCHANGED <<vpc, vi, vresult, vulnerableAPIs, vouts, vret, vcalls>>
  /\ UNCHANGED notValidate

\* lines 216-227
ValidateReturn ==
  /\ vpc = "loop"
  /\ vi > NumEndpoints
  /\ LET r == ValidateTail([result |-> vresult, apis |-> vulnerableAPIs])
     IN /\ vresult' = r
        /\ vret' = [result |-> r, err |-> NoError]
  /\ vpc' = "returned"
  /\ UNCHANGED <<vi, vulnerableAPIs, vouts, vctx, vcalls>>
  /\ UNCHANGED notValidate

NextValidate ==
  \/ ValidateEnter
  \/ ValidateProbe
  \/ ValidateReturn

\* Validate under a context the caller may cancel
NextValidateCtx ==
  \/ ValidateEnter
  \/ ValidateProbe
  \/ ValidateProbeAborted
  \/ Cancel
  \/ ValidateReturn

\* no batch is running while the single Validate call is examined
InitNoBatch ==
  /\ InitManyIdle
  /\ mpc = [c \in Calls |-> "absent"]
  /\ service = [c \in Calls |-> GetService]
  /\ keys = [c \in Calls |-> <<>>]
  /\ tpc = [c \in Calls |-> <<>>]

(***************************************************************************)
(* internal/detector: patterns, NewKeyDetector, DetectService              *)
(***************************************************************************)
MaxPatterns == 2

Aliases == {GetService, "AWS Access Key ID"}

\* the regular expressions of a configuration; "(" does not compile
Regexes == {"^AIza", "^AKIA", "^A", "("}

\* regexp.Compile: [re, err]
Compile(regex) ==
  IF regex = "(" THEN [re |-> Nil, err |-> "missing closing )"]
  ELSE [re |-> [expr |-> regex], err |-> NoError]

\* (*Regexp).MatchString over the keys of the model
MatchString(re, key) ==
  CASE re.expr = "^AIza" -> key \in {"AIzaAll", "AIzaTwo"}
    [] re.expr = "^AKIA" -> key \in {"AKIANone"}
    [] re.expr = "^A" -> key \in {"AIzaAll", "AIzaTwo", "AKIANone"}

\* Pattern values: one or two names (ValidatePattern: at least one name)
Patterns ==
  [Name : { <<a>> : a \in Aliases } \cup { <<a, b>> : a, b \in Aliases },
   Regex : Regexes]

SeqsUpTo(S, n) == UNION { [1..k -> S] : k \in 0..n }

\* payloads: JSON that does not parse, or an array of patterns
Payload(patterns) == [json |-> TRUE, patterns |-> patterns]

NotJSON == [json |-> FALSE, patterns |-> <<>>]

ConfigPayloads ==
  {NotJSON} \cup { Payload(ps) : ps \in SeqsUpTo(Patterns, MaxPatterns) }

\* lines 169-179 of the detector: compile every pattern and store the
\* regexp under each of its names.  st = [compiled, err]
RECURSIVE CompileAll(_, _, _)
CompileAll(patterns, i, compiled) ==
  IF i > Len(patterns) THEN [compiled |-> compiled, err |-> NoError]
  ELSE LET c == Compile(patterns[i].Regex) IN
       IF c.err # NoError
         THEN [compiled |-> compiled,
               err |-> "invalid regex pattern for " \o patterns[i].Name[1]]
         ELSE LET RECURSIVE StoreNames(_, _)
                  StoreNames(m, k) ==
                    IF k > Len(patterns[i].Name) THEN m
                    ELSE StoreNames(MapSet(m, patterns[i].Name[k], c.re), k + 1)
              IN CompileAll(patterns, i + 1, StoreNames(compiled, 1))

\* NewKeyDetector: [d, err]
NewKeyDetector(payload) ==
  IF ~payload.json
    THEN [d |-> Nil, err |-> "failed to parse config data"]
    ELSE LET c == CompileAll(payload.patterns, 1, EmptyMap) IN
         IF c.err # NoError THEN [d |-> Nil, err |-> c.err]
         ELSE [d |-> [patterns |-> payload.patterns, compiled |-> c.compiled],
               err |-> NoError]

\* DetectService
RECURSIVE DetectFrom(_, _, _)
DetectFrom(d, key, i) ==
  IF i > Len(d.patterns) THEN ""
  ELSE LET re == d.compiled[d.patterns[i].Name[1]] IN
       IF MatchString(re, key) THEN d.patterns[i].Name[1]
       ELSE DetectFrom(d, key, i + 1)

DetectService(d, key) == DetectFrom(d, key, 1)

InitDetectIdle ==
  /\ detector = Nil
  /\ loadErr = NoError
  /\ dpc = "start"
  /\ dkey = ""
  /\ dret = ""

InitDetect ==
  /\ InitDetectIdle
  /\ configData \in ConfigPayloads

\* detector.NewKeyDetector(configContent)
Load ==
  /\ dpc = "start"
  /\ LET r == NewKeyDetector(configData)
     IN /\ detector' = r.d
        /\ loadErr' = r.err
        /\ dpc' = IF r.err = NoError THEN "loaded" ELSE "failed"
  /\ UNCHANGED <<configData, dkey, dret>>
  /\ UNCHANGED <<varsValidate, varsMany, varsDriver>>

\* detector.DetectService(key)
Detect ==
  /\ dpc = "loaded"
  /\ rpc = "absent"
  /\ \E key \in KeyUniverse :
       /\ dkey' = key
       /\ dret' = DetectService(detector, key)
  /\ UNCHANGED <<configData, detector, loadErr, dpc>>
  /\ UNCHANGED <<varsValidate, varsMany, varsDriver>>

NextDetect ==
  \/ Load
  \/ Detect

(***************************************************************************)
(* cmd/apiKeyzer: runValidation                                            *)
(***************************************************************************)
MaxInputKeys == 3

\* the key lists the parser hands over: trimmed, without duplicates
InputKeys ==
  { ks \in SeqsUpTo(KeyUniverse, MaxInputKeys) :
      \A i, j \in 1..Len(ks) : i # j => ks[i] # ks[j] }

\* the configurations the command is run with
CommandConfigs ==
  { Payload(<< [Name |-> <<GetService>>, Regex |-> "^AIza"],
               [Name |-> <<"AWS Access Key ID">>, Regex |-> "^AKIA"] >>),
    Payload(<< [Name |-> <<"AWS Access Key ID", GetService>>, Regex |-> "^A"] >>),
    Payload(<< [Name |-> <<GetService>>, Regex |-> "^A"] >>) }

\* initValidators
initValidators == RegisterValidator(EmptyMap, GetService, "googlemaps")

InitDriverIdle ==
  /\ rpc = "absent"
  /\ rkeys = <<>>
  /\ ri = 1
  /\ rlog = <<>>

InitDriver ==
  /\ configData \in CommandConfigs
  /\ InitDetectIdle
  /\ rpc = "loop"
  /\ rkeys \in InputKeys
  /\ ri = 1
  /\ rlog = <<>>
  /\ validators = initValidators
  /\ mi = [c \in Calls |-> 1]
  /\ results = [c \in Calls |-> <<>>]
  /\ semaphore = [c \in Calls |-> 0]
  /\ wg = [c \in Calls |-> 0]
  /\ mret = [c \in Calls |-> Nil]
  /\ mpc = [c \in Calls |-> "absent"]
  /\ service = [c \in Calls |-> GetService]
  /\ keys = [c \in Calls |-> <<>>]
  /\ tpc = [c \in Calls |-> <<>>]

\* lines 201-219 for one key: what is printed, and what ValidateKey did
ProcessKey(d, vs, key) ==
  LET svc == DetectService(d, key) IN
  IF svc = ""
    THEN [key |-> key, service |-> "", line |-> "Unknown service for key",
          err |-> NoError, result |-> Nil, invoked |-> FALSE]
    ELSE LET r == ValidateKey(vs, svc, key) IN
         IF r.err # NoError
           THEN [key |-> key, service |-> svc, line |-> "Error validating key",
                 err |-> r.err, result |-> Nil, invoked |-> r.invoked]
           ELSE [key |-> key, service |-> svc,
                 line |-> IF r.result.Valid THEN "[+] Vulnerable API Key: "
                          ELSE "[-] Invalid key for",
                 err |-> NoError, result |-> r.result, invoked |-> r.invoked]

\* one iteration of the loop of lines 201-219
DriverStep ==
  /\ rpc = "loop"
  /\ dpc = "loaded"
  /\ ri <= Len(rkeys)
  /\ rlog' = Append(rlog, ProcessKey(detector, validators, rkeys[ri]))
  /\ ri' = ri + 1
  /\ UNCHANGED <<rpc, rkeys>>
  /\ UNCHANGED <<varsValidate, varsMany, varsDetect>>

\* the loop is over and runValidation returns
DriverDone ==
  /\ rpc = "loop"
  /\ dpc = "loaded"
  /\ ri > Len(rkeys)
  /\ rpc' = "done"
  /\ UNCHANGED <<rkeys, ri, rlog>>
  /\ UNCHANGED <<varsValidate, varsMany, varsDetect>>

NextDriver ==
  \/ Load
  \/ DriverStep
  \/ DriverDone

(***************************************************************************)
(* Specifications                                                          *)
(***************************************************************************)
InitUnused == InitDetectIdle /\ configData = Payload(<<>>) /\ InitDriverIdle

\* one ValidateKeysParallel call
InitSpec == InitMany /\ InitValidate /\ InitUnused

Spec == InitSpec /\ [][NextMany]_vars

\* one ValidateKeysParallel call under a scheduler that keeps running some
\* goroutine that can run, every ValidateKey call returning
SpecLive == InitSpec /\ [][NextMany]_vars /\ WF_vars(NextMany)

\* two ValidateKeysParallel calls running concurrently
InitSpecConc == InitConc /\ InitValidate /\ InitUnused

SpecConc == InitSpecConc /\ [][NextMany]_vars

\* one GoogleMapsValidator.Validate call
InitSpecValidate == InitValidate /\ InitNoBatch /\ InitUnused

SpecValidate == InitSpecValidate /\ [][NextValidate]_vars

\* one GoogleMapsValidator.Validate call under any context
InitSpecCtx == InitValidateCtx /\ InitNoBatch /\ InitUnused

SpecCtx == InitSpecCtx /\ [][NextValidateCtx]_vars

\* NewKeyDetector on a configuration payload, then DetectService calls
InitSpecDetect == InitDetect /\ InitDriverIdle /\ InitValidate /\ InitNoBatch

SpecDetect == InitSpecDetect /\ [][NextDetect]_vars

\* the command: NewKeyDetector, then the per-key loop
InitSpecDriver == InitDriver /\ InitValidate

SpecDriver == InitSpecDriver /\ [][NextDriver]_vars

(***************************************************************************)
(* Properties of Validate                                                  *)
(***************************************************************************)
\* the endpoints, among the first n, whose probe was answered and whose
\* predicate holds of the answer
VulnerableIdx(outs, n) ==
  { i \in 1..n : /\ outs[i].kind = "response"
                 /\ LET r == outs[i].resp
                    IN CASE i \in {1, 2} -> r.StatusCode = 200 \/ r.hasPNG
                         [] i = 3 -> r.StatusCode = 200 /\ r.ErrorMessage = ""
                         [] i = 4 -> r.StatusCode = 200 /\ ~r.hasErrorWord }

RankIn(S, i) == Cardinality({ j \in S : j <= i })

\* C5: the endpoint fold law.  When Validate has returned, with M the number
\* of endpoints whose predicate held of the received response (a failed
\* probe counts as not vulnerable): valid = (M > 0), permissions lists
\* exactly those endpoints in endpoint order, and the risk level is low for
\* M = 0, medium for M in 1..2, high for M >= 3.
C5_FoldLaw ==
  vpc = "returned" =>
    LET S == VulnerableIdx(vouts, NumEndpoints)
        M == Cardinality(S)
        v == vret.result
    IN /\ vret.err = NoError
       /\ v.Valid = (M > 0)
       /\ Len(v.Permissions) = M
       /\ \A i \in S : v.Permissions[RankIn(S, i)] = googleMapsEndpoints[i].URL
       /\ v.RiskLevel = (IF M = 0 THEN "low" ELSE IF M <= 2 THEN "medium" ELSE "high")

\* three endpoints vulnerable, the remaining probe failed at transport level
C5_Witness ==
  /\ vpc = "returned"
  /\ Cardinality(VulnerableIdx(vouts, NumEndpoints)) = 3
  /\ \E i \in 1..NumEndpoints : vouts[i].kind # "response"
  /\ vret.result.RiskLevel = "high"

\* C6: a probe that fails at transport level leaves "Error: <message>" under
\* its endpoint in details, the loop goes on to every remaining endpoint,
\* and Validate returns a verdict with no error whose details has an entry
\* for every endpoint, whatever subset of the probes failed.
C6_TransportAbsorbed ==
  /\ vpc \in {"loop", "returned"} =>
       /\ Len(vouts) = vi - 1
       /\ DOMAIN vresult.Details = { googleMapsEndpoints[i].URL : i \in 1..(vi - 1) }
       /\ \A i \in 1..(vi - 1) :
            vouts[i].kind # "response" =>
              vresult.Details[googleMapsEndpoints[i].URL] \in
                { [text |-> "Error: request failed: transport"],
                  [text |-> "Error: failed to read response: transport"] }
  /\ vpc = "returned" =>
       /\ vi = NumEndpoints + 1
       /\ vret.err = NoError
       /\ vret.result # Nil
       /\ DOMAIN vret.result.Details =
            { googleMapsEndpoints[i].URL : i \in 1..NumEndpoints }

\* every probe failed at transport level and Validate still returned a verdict
C6_Witness ==
  /\ vpc = "returned"
  /\ \A i \in 1..NumEndpoints : vouts[i].kind # "response"
  /\ vret.result.Details[googleMapsEndpoints[1].URL].text = "Error: request failed: transport"

(***************************************************************************)
(* Properties of ValidateKeysParallel                                      *)
(***************************************************************************)
Holding(c) == { i \in 1..Len(keys[c]) : tpc[c][i] \in {"validating", "exit"} }

\* C1: within one ValidateKeysParallel call at most 5 validations are in
\* flight at any time; a goroutine is validating only while it holds one of
\* the 5 permits, which it took before and gives back after its validation.
C1_AtMostFiveInFlight ==
  /\ Cardinality(InFlight(1)) <= 5
  /\ InFlight(1) \subseteq Holding(1)
  /\ semaphore[1] = Cardinality(Holding(1))
  /\ semaphore[1] <= 5

\* five validations in flight while a sixth goroutine waits for a permit
C1_Witness ==
  /\ Cardinality(InFlight(1)) = 5
  /\ \E i \in 1..Len(keys[1]) : tpc[1][i] = "acquire"

\* the verdict the batch owes to one key
VerdictOf(svc, key) ==
  LET g == GetValidator(validators, svc) IN
  IF ~g.exists THEN ErrorResult(svc, "no validator found for service: " \o svc)
  ELSE LET r == ValidatorValidate(g.v, key) IN
       IF r.err # NoError THEN ErrorResult(svc, r.err) ELSE r.result

\* C2: results are positional.  At every moment slot i is empty until
\* goroutine i has validated keys[i] and from then on holds the verdict of
\* keys[i]; the returned slice is as long as keys and its i-th verdict is
\* the verdict of keys[i], whatever the order in which goroutines finished.
C2_Positional ==
  /\ mpc[1] # "idle" =>
       /\ Len(results[1]) = Len(keys[1])
       /\ \A i \in 1..Len(keys[1]) :
            IF tpc[1][i] \in {"exit", "done"}
              THEN results[1][i] = VerdictOf(service[1], keys[1][i])
              ELSE results[1][i] = Nil
  /\ mpc[1] = "returned" =>
       /\ Len(mret[1]) = Len(keys[1])
       /\ \A i \in 1..Len(keys[1]) : mret[1][i] = VerdictOf(service[1], keys[1][i])

\* goroutine 3 has finished before goroutines 1 and 2 have started validating
C2_Witness ==
  /\ Len(keys[1]) >= 3
  /\ tpc[1][1] = "acquire"
  /\ tpc[1][2] = "acquire"
  /\ tpc[1][3] = "done"
  /\ results[1][3].Valid
  /\ results[1][3] # VerdictOf(service[1], keys[1][2])

Failed(c, i) == ValidateKey(validators, service[c], keys[c][i]).err # NoError

\* C3: when ValidateKey fails for key i, the returned slot i is a verdict
\* with Valid = FALSE carrying that error, and every other key whose own
\* validation succeeds still has the verdict its validator returned: the
\* batch is not cut short and no other slot is touched.
C3_FailureIsolated ==
  mpc[1] = "returned" =>
    \A i \in 1..Len(keys[1]) :
      Failed(1, i) =>
        /\ Len(mret[1]) = Len(keys[1])
        /\ mret[1][i] # Nil
        /\ mret[1][i].Valid = FALSE
        /\ mret[1][i].Error = ValidateKey(validators, service[1], keys[1][i]).err
        /\ mret[1][i].ErrorStr = mret[1][i].Error
        /\ mret[1][i].Service = service[1]
        /\ \A j \in 1..Len(keys[1]) :
             (j # i /\ ~Failed(1, j)) =>
               mret[1][j] =
                 ValidatorValidate(validators[service[1]], keys[1][j]).result

\* a returned batch in which one key failed and another came out valid
C3_Witness ==
  /\ mpc[1] = "returned"
  /\ \E i, j \in 1..Len(keys[1]) :
       /\ Failed(1, i)
       /\ mret[1][i].Error = ErrTimeout
       /\ ~Failed(1, j)
       /\ mret[1][j].Valid

\* C4: the call returns only once every goroutine has completed: in the
\* state where it has returned every goroutine is done, the WaitGroup
\* counter is zero and no slot is empty, also when some validations failed.
C4_JoinBeforeReturn ==
  mpc[1] = "returned" =>
    /\ wg[1] = 0
    /\ \A i \in 1..Len(keys[1]) : tpc[1][i] = "done"
    /\ \A i \in 1..Len(keys[1]) : mret[1][i] # Nil

\* a batch of more keys than permits returned, with a failed key in it
C4_Witness ==
  /\ mpc[1] = "returned"
  /\ Len(keys[1]) > MaxConcurrent
  /\ \E i \in 1..Len(keys[1]) : Failed(1, i)
  /\ \E i \in 1..Len(keys[1]) : ~Failed(1, i)

\* C7: every verdict in a result slot, whether it came from Validate or
\* from the error path of the batch, has permissions when it is valid and
\* carries an error only when it is not valid and lists no vulnerable
\* endpoint; a verdict of the Google Maps validator carries ErrInvalidKey
\* exactly when no endpoint was found vulnerable for its key.
C7_VerdictInvariant ==
  \A i \in 1..Len(results[1]) :
    LET v == results[1][i] IN
    v # Nil =>
      /\ v.Valid => v.Permissions # <<>>
      /\ v.Error # NoError => (~v.Valid /\ v.Permissions = <<>>)
      /\ service[1] = GetService =>
           /\ v.Error \in {NoError, ErrInvalidKey}
           /\ (v.Error = ErrInvalidKey) =
                (VulnerableIdx(NetFor(keys[1][i]), NumEndpoints) = {})
           /\ v.Valid = (VulnerableIdx(NetFor(keys[1][i]), NumEndpoints) # {})

\* slots holding a valid Google Maps verdict, an invalid one, and (in
\* another batch) the verdict of the error path
C7_Witness ==
  /\ service[1] = GetService
  /\ \E i, j \in 1..Len(results[1]) :
       /\ results[1][i] # Nil /\ results[1][i].Valid
       /\ results[1][j] # Nil /\ results[1][j].Error = ErrInvalidKey

InFlightTotal == Cardinality(InFlight(1)) + Cardinality(InFlight(2))

\* C10 as stated: at most 5 validations in flight over the whole process,
\* also while two ValidateKeysParallel calls run concurrently.
C10_ProcessWideBound ==
  InFlightTotal <= 5

\* C10 as amended: the bound of 5 holds for each ValidateKeysParallel call
\* by itself, each call having a semaphore of its own; calls running
\* concurrently have at most 5 validations in flight apiece.
C10_PerCallBound ==
  /\ \A c \in Calls :
       /\ Cardinality(InFlight(c)) <= 5
       /\ semaphore[c] <= 5
       /\ Cardinality(InFlight(c)) <= semaphore[c]
  /\ InFlightTotal <= 5 * Cardinality({ c \in Calls : mpc[c] = "spawn" })

\* the first call has its 5 permits out and one more goroutine waiting,
\* while the second call is validating too
C10_Witness ==
  /\ Cardinality(InFlight(1)) = 5
  /\ \E i \in 1..Len(keys[1]) : tpc[1][i] = "acquire"
  /\ Cardinality(InFlight(2)) >= 1

(***************************************************************************)
(* Properties of the detector and of the command loop                      *)
(***************************************************************************)
\* the entries of the configuration whose own regex matches the key
MatchingEntries(patterns, key) ==
  { i \in 1..Len(patterns) : MatchString(Compile(patterns[i].Regex).re, key) }

Least(S) == CHOOSE i \in S : \A j \in S : i <= j

\* C8: DetectService returns the first name of the first entry, in
\* configuration order, whose regex matches the key, and "" when no entry's
\* regex matches.
C8_FirstMatchWins ==
  (dpc = "loaded" /\ dkey # "") =>
    LET M == MatchingEntries(detector.patterns, dkey) IN
    dret = (IF M = {} THEN "" ELSE detector.patterns[Least(M)].Name[1])

\* C9: for a key whose detected service has no registered validator,
\* ValidateKey returns the no-validator error and no verdict without
\* invoking any validator; the loop prints the error for that key and goes
\* on, so that every key of the input has been processed when it ends.
C9_NoValidator ==
  /\ rpc \in {"loop", "done"} =>
       /\ Len(rlog) = ri - 1
       /\ \A i \in 1..Len(rlog) :
            /\ rlog[i].key = rkeys[i]
            /\ (rlog[i].service # "" /\ rlog[i].service \notin DOMAIN validators) =>
                 /\ rlog[i].err = "no validator found for service: " \o rlog[i].service
                 /\ rlog[i].result = Nil
                 /\ rlog[i].invoked = FALSE
                 /\ rlog[i].line = "Error validating key"
  /\ rpc = "done" => Len(rlog) = Len(rkeys)

\* the loop ended after a key with no validator was followed by a key that
\* was validated
C9_Witness ==
  /\ rpc = "done"
  /\ \E i, j \in 1..Len(rlog) :
       /\ i < j
       /\ rlog[i].err = "no validator found for service: AWS Access Key ID"
       /\ rlog[j].invoked
       /\ rlog[j].result # Nil

(***************************************************************************)
(* Properties of Validate under cancellation and a request that cannot be  *)
(* built                                                                   *)
(***************************************************************************)
\* the endpoints whose loop iteration began after the context was cancelled
LateEndpoints == { i \in 1..Len(vcalls) : vcalls[i] = "cancelled" }

Range(f) == { f[i] : i \in DOMAIN f }

\* C11 as stated: once the context is cancelled, the endpoints not yet
\* started are skipped (validateEndpoint is not called for them) and are
\* recorded in details as cancelled, never as probed with vulnerable=false,
\* and none of them is in permissions.
C11_SkippedAsCancelled ==
  /\ LateEndpoints = {}
  /\ (vpc = "returned" /\ vctx = "cancelled") =>
       \A i \in 1..NumEndpoints :
         i > Len(vcalls) =>
           /\ googleMapsEndpoints[i].URL \in DOMAIN vret.result.Details
           /\ vret.result.Details[googleMapsEndpoints[i].URL] = [text |-> "cancelled"]
           /\ googleMapsEndpoints[i].URL \notin Range(vret.result.Permissions)

\* C11 as amended: once the context is cancelled, validateEndpoint is still
\* called for every endpoint not yet started; its request gets no answer
\* and details records it as "Error: request failed: context canceled", the
\* way a transport error is recorded, never as a probed endpoint with
\* vulnerable=false, and no such endpoint is added to permissions.
C11_CancelledProbeAbsorbed ==
  /\ vpc \in {"loop", "returned"} =>
       /\ Len(vcalls) = vi - 1
       /\ \A i \in LateEndpoints :
            LET url == googleMapsEndpoints[i].URL IN
            /\ vouts[i] = NotSent
            /\ url \in DOMAIN vresult.Details
            /\ vresult.Details[url] = [text |-> "Error: request failed: context canceled"]
            /\ url \notin Range(vulnerableAPIs)
            /\ url \notin Range(vresult.Permissions)
       /\ \A i, j \in 1..Len(vcalls) :
            (i < j /\ vcalls[i] = "cancelled") => vcalls[j] = "cancelled"
  /\ vpc = "returned" => Len(vcalls) = NumEndpoints

\* two endpoints answered as vulnerable, the context was cancelled, and the
\* last two endpoints were reached after that
C11_Witness ==
  /\ vpc = "returned"
  /\ LateEndpoints = {3, 4}
  /\ vret.result.Valid
  /\ Len(vret.result.Permissions) = 2

\* the endpoints whose request could not be built: the context was nil
UnbuiltEndpoints == { i \in 1..Len(vcalls) : vcalls[i] = "nil" }

\* C12 as stated: when the request of an endpoint cannot be built, Validate
\* returns an error and no verdict.
C12_BuildErrorFatal ==
  (vpc = "returned" /\ UnbuiltEndpoints # {}) =>
    /\ vret.err # NoError
    /\ vret.result = Nil

\* C12 as amended: an error while building an endpoint's request is
\* absorbed like a transport error: details records "Error: <message>" under
\* the endpoint, the loop goes on, and Validate returns a verdict and no
\* error; Validate returns no error in any case.
C12_BuildErrorAbsorbed ==
  /\ vpc \in {"loop", "returned"} =>
       \A i \in UnbuiltEndpoints :
         LET url == googleMapsEndpoints[i].URL IN
         /\ url \in DOMAIN vresult.Details
         /\ vresult.Details[url] =
              [text |-> "Error: failed to create request: net/http: nil Context"]
  /\ vpc = "returned" =>
       /\ Len(vcalls) = NumEndpoints
       /\ vret.err = NoError
       /\ vret.result # Nil
       /\ UnbuiltEndpoints # {} =>
            /\ ~vret.result.Valid
            /\ vret.result.Error = ErrInvalidKey

\* Validate returned a verdict although no request could be built
C12_Witness ==
  /\ vpc = "returned"
  /\ UnbuiltEndpoints = 1..NumEndpoints
  /\ vret.err = NoError
  /\ vret.result.Error = ErrInvalidKey

\* C13: in every table NewKeyDetector returns, looking up any name of any
\* entry in the compiled map yields the regex compiled from that entry, so
\* DetectService tests each entry against its own regex; also when two
\* entries share a name.
C13_AliasLookupOwnRegex ==
  dpc = "loaded" =>
    \A i \in 1..Len(detector.patterns) :
      \A k \in 1..Len(detector.patterns[i].Name) :
        /\ detector.patterns[i].Name[k] \in DOMAIN detector.compiled
        /\ detector.compiled[detector.patterns[i].Name[k]] =
             Compile(detector.patterns[i].Regex).re

\* C14: under fair scheduling the ValidateKeysParallel call eventually
\* returns for every key list (empty, longer than the 5 permits, with
\* failing keys), and by then every goroutine has got its permit, given it
\* back and signalled completion: none is left waiting for a permit.
C14_EventuallyReturns ==
  <>(/\ mpc[1] = "returned"
     /\ \A i \in 1..Len(keys[1]) : tpc[1][i] = "done"
     /\ semaphore[1] = 0
     /\ wg[1] = 0)

\* a call with more keys than permits has returned, every key having failed
C14_Witness ==
  /\ mpc[1] = "returned"
  /\ Len(keys[1]) > MaxConcurrent
  /\ \A i \in 1..Len(keys[1]) : mret[1][i].Error # NoError /\ ~mret[1][i].Valid
  /\ semaphore[1] = 0

====
